---- MODULE Spec2Model ----
(***************************************************************************)
(* A model of the volumetric path tracer of ProjectVPT.cpp.                *)
(*                                                                         *)
(* Numbers.  The program computes in IEEE single precision.  The model     *)
(* computes the same expressions exactly: a float is an extended rational  *)
(* (a fraction, +infinity, -infinity or NaN), so division by zero,         *)
(* comparison with NaN and fminf/fmaxf behave as IEEE 754 prescribes, and  *)
(* rounding error is left out.  Positions are integer triples in grid      *)
(* units.  The program's counters and buffer offsets are uint32_t; the     *)
(* bounds below keep them far under 2^32, where the arithmetic does not    *)
(* wrap, so they are plain naturals here.                                  *)
(***************************************************************************)
EXTENDS Integers, Naturals, Sequences, FiniteSets, TLC

\* ------------------------------------------------------------------ bounds
MaxCoord == 2           \* ray origins of the slab-test inputs: -MaxCoord..MaxCoord
MaxDir == 2             \* direction components of the slab-test inputs
MaxExtent == 3          \* cube extents of the slab-test inputs: 1..MaxExtent
AlbedoDen == 4          \* albedo ranges over 0/AlbedoDen .. AlbedoDen/AlbedoDen
MaxCap == 2             \* context.maxInteractions ranges over 0..MaxCap
RandDen == 3            \* vtRandom() ranges over 0/RandDen .. (RandDen-1)/RandDen
MaxFlight == 2          \* one free-flight increment is 0..MaxFlight flight units
FlightUnit == 25        \* the length of a flight unit, in grid units
ExtLevels == 2          \* the extinction field takes the values maxExtinction * (0..ExtLevels)/ExtLevels
MaxImageWidth == 2      \* context.imageWidth ranges over 1..MaxImageWidth
MaxImageHeight == 2     \* context.imageHeight ranges over 1..MaxImageHeight
DrawsPerPixel == 1      \* the vtRandom() calls one pixel makes in the frame loop
GenPeriod == 2          \* the generator's states, counted from the seeded one: 0..GenPeriod-1
MaxSpp == 2             \* context.samplePerPixel ranges over 1..MaxSpp
MaxCameraSize == 2      \* cameraSize ranges over 1..MaxCameraSize and the scene's 1/50
MaxGrid == 2            \* the density grid's size n ranges over 1..MaxGrid
MaxTris == 2            \* a mesh has at most MaxTris triangles

\* ------------------------------------------------------- program constants
\* The path integrator's positions are in grid units of 0.01.
VolumeExtent == 100     \* medium.volumeExtent = (1, 1, 1)
EntryEps == 1           \* the 0.01f added to tmin
MaxExtinction == 200    \* medium.maxExtinction
RouletteDen == 5        \* 0.2f = 1/5, and the 5.0f of the roulette test
NumThreads == 4         \* #pragma omp parallel for num_threads(4)
BytesPerPixel == 4      \* the 4 of py * imageWidth * 4 + px * 4
SceneCameraDen == 50    \* main: znear * tanf(fov) * 2 = 0.01 * tan(pi/4) * 2 = 1/50
RayLength == 10000      \* VTTriangle::IntersectInside: the length of the segment p..q

\* ------------------------------------------------------- extended rationals
Abs(i) == IF i < 0 THEN -i ELSE i

Sign(i) == IF i < 0 THEN -1 ELSE IF i > 0 THEN 1 ELSE 0

RECURSIVE Gcd(_, _)
Gcd(a, b) == IF b = 0 THEN a ELSE Gcd(b, a % b)

\* The fraction n/d (d > 0) in lowest terms.
Num(n, d) ==
    LET g == Gcd(Abs(n), d)
    IN  [k |-> "num", n |-> n \div g, d |-> d \div g]

PInf == [k |-> "pinf", n |-> 0, d |-> 1]
NInf == [k |-> "ninf", n |-> 0, d |-> 1]
NaN == [k |-> "nan", n |-> 0, d |-> 1]
FZero == Num(0, 1)

\* IEEE division of the integers a and b: x/0 is +/-infinity, 0/0 is NaN.
FDiv(a, b) ==
    IF b = 0
    THEN (IF a > 0 THEN PInf ELSE IF a < 0 THEN NInf ELSE NaN)
    ELSE Num(a * Sign(b), Abs(b))

\* IEEE x < y: false when either is NaN.
FLess(x, y) ==
    CASE x.k = "nan" \/ y.k = "nan" -> FALSE
      [] x.k = "pinf" -> FALSE
      [] y.k = "ninf" -> FALSE
      [] x.k = "ninf" -> TRUE
      [] y.k = "pinf" -> TRUE
      [] OTHER -> x.n * y.d < y.n * x.d

\* fminf and fmaxf return the other argument when one is NaN.
fminf(x, y) ==
    IF x.k = "nan" THEN y
    ELSE IF y.k = "nan" THEN x
    ELSE IF FLess(y, x) THEN y ELSE x

fmaxf(x, y) ==
    IF x.k = "nan" THEN y
    ELSE IF y.k = "nan" THEN x
    ELSE IF FLess(x, y) THEN y ELSE x

\* ------------------------------------------------------------ the variables
VARIABLES
    ivExtent,       \* slab test: context.medium.volumeExtent (a cube's edge)
    ivP,            \* slab test: the ray origin p
    ivD,            \* slab test: the ray direction d
    ivRes,          \* slab test: the result, or NoResult before the call
    albedo,         \* context.medium.albedo, in units of 1/AlbedoDen
    maxInteractions,\* context.maxInteractions
    camP,           \* vtTraceSample: the argument p
    camD,           \* vtTraceSample: the argument d
    tpc,            \* vtTraceSample: "idle", "start", "flight", "scatter", "done"
    rayPos,         \* vtTraceSample: rayPos
    rayDir,         \* vtTraceSample: rayDir
    weight,         \* vtTraceSample: weight
    interactions,   \* vtTraceSample: interactions
    flightT,        \* vtTraceInteraction: t
    cand,           \* vtTraceInteraction: s, once line 538 has computed it
    lastEval,       \* the last position vtExtinction was evaluated at
    exitKind,       \* how vtTraceSample returned
    result,         \* vtTraceSample: the returned colour
    imageWidth,     \* context.imageWidth
    imageHeight,    \* context.imageHeight
    rowsLeft,       \* main: the iterations py of the parallel loop not yet handed out
    wpc,            \* per worker: "idle", "load", "store", "write"
    wRow,           \* per worker: its py
    wPx,            \* per worker: its px
    wDraws,         \* per worker: the vtRandom() calls its pixel still makes
    gen,            \* vtRandom: the state of the static std::mt19937 gen
    genUsers,       \* vtRandom: the workers that have read or advanced gen
    writes,         \* the writes to data: [off, px, py], off the byte offset
    spp,            \* context.samplePerPixel
    cameraSize,     \* vtVolumePathTrace: cameraSize
    pixel,          \* vtVolumePathTrace: <<px, py>>
    ppc,            \* vtVolumePathTrace: "idle", "sample", "scale", "done"
    sx,             \* vtVolumePathTrace: the loop variable x
    sy,             \* vtVolumePathTrace: the loop variable y
    calls,          \* the calls of vtTraceSample made for the pixel
    accumSum,       \* accumColor when the loops end
    accumColor,     \* accumColor
    lastSample,     \* the last sub-sample: [x, y, rx, ry]
    dnSize,         \* VTMedium::size
    dnExtent,       \* VTMedium::volumeExtent
    dnPos,          \* VTMedium::Density: the argument pos
    dnRead,         \* VTMedium::Density: the indices and offsets it read, or <<>>
    mesh,           \* VTTriangleMesh::tris, a sequence of triangles [v0, v1, v2]
    mtSize,         \* vtTriangleMeshToMedium: medium.size
    mtDone,         \* vtTriangleMeshToMedium: per slice z, the cells already classified
    mtDensity       \* vtTriangleMeshToMedium: medium.density, offset -> value written

ivVars == <<ivExtent, ivP, ivD, ivRes>>

traceVars == <<albedo, maxInteractions, camP, camD, tpc, rayPos, rayDir, weight,
               interactions, flightT, cand, lastEval, exitKind, result>>

parVars == <<imageWidth, imageHeight, rowsLeft, wpc, wRow, wPx, wDraws, gen,
             genUsers, writes>>

pixVars == <<spp, cameraSize, pixel, ppc, sx, sy, calls, accumSum, accumColor,
             lastSample>>

dnVars == <<dnSize, dnExtent, dnPos, dnRead>>

meshVars == <<mesh, mtSize, mtDone, mtDensity>>

vars == <<ivVars, traceVars, parVars, pixVars, dnVars, meshVars>>

Axes == 1..3

NoResult == [hit |-> FALSE, tmin |-> NaN, tmax |-> NaN, lo |-> <<>>, hi |-> <<>>]

Cube(e) == <<e, e, e>>

\* ----------------------------------------------------------- Volume geometry
\* (-halfVolumeExtent - p) / d and (halfVolumeExtent - p) / d for one axis,
\* with halfVolumeExtent = volumeExtent * 0.5: both sides are doubled so that
\* the quotient stays a quotient of integers.
SlabLo(ve, p, d, i) == FDiv(-ve[i] - 2 * p[i], 2 * d[i])

SlabHi(ve, p, d, i) == FDiv(ve[i] - 2 * p[i], 2 * d[i])

\* The lower clamp of tmin that a slab test without it would apply.
ClampTMinNone(t) == t

\* fmaxf(..., 0.0f): tmin is never negative.
ClampTMin(t) == fmaxf(t, FZero)

vtIntersectVolume(ve, p, d) ==
    LET x0 == SlabLo(ve, p, d, 1)
        y0 == SlabLo(ve, p, d, 2)
        z0 == SlabLo(ve, p, d, 3)
        x1 == SlabHi(ve, p, d, 1)
        y1 == SlabHi(ve, p, d, 2)
        z1 == SlabHi(ve, p, d, 3)
        tmin == ClampTMin(fmaxf(fmaxf(fminf(z0, z1), fminf(y0, y1)), fminf(x0, x1)))
        tmax == fminf(fminf(fmaxf(z0, z1), fmaxf(y0, y1)), fmaxf(x0, x1))
    IN  [hit |-> FLess(tmin, tmax), tmin |-> tmin, tmax |-> tmax,
         lo |-> <<x0, y0, z0>>, hi |-> <<x1, y1, z1>>]

\* pos is an integer triple; the comparisons are those of the code, doubled.
vtInVolume(ve, pos) ==
    /\ ~(-ve[1] > 2 * pos[1] \/ ve[1] < 2 * pos[1])
    /\ ~(-ve[2] > 2 * pos[2] \/ ve[2] < 2 * pos[2])
    /\ ~(-ve[3] > 2 * pos[3] \/ ve[3] < 2 * pos[3])

\* ------------------------------------------- the slab test on bounded inputs
Coords == (-MaxCoord)..MaxCoord
Dirs == (-MaxDir)..MaxDir

IvIdle ==
    /\ ivExtent = Cube(1)
    /\ ivP = <<0, 0, 0>>
    /\ ivD = <<0, 0, 0>>
    /\ ivRes = NoResult

TraceIdle ==
    /\ albedo = 0
    /\ maxInteractions = 0
    /\ camP = <<0, 0, 0>>
    /\ camD = <<0, 0, 0>>
    /\ tpc = "idle"
    /\ rayPos = <<0, 0, 0>>
    /\ rayDir = <<0, 0, 0>>
    /\ weight = Num(1, 1)
    /\ interactions = 0
    /\ flightT = 0
    /\ cand = <<>>
    /\ lastEval = <<>>
    /\ exitKind = "none"
    /\ result = <<>>

Workers == 1..NumThreads

ParIdle ==
    /\ imageWidth = 1
    /\ imageHeight = 1
    /\ rowsLeft = {}
    /\ wpc = [w \in Workers |-> "idle"]
    /\ wRow = [w \in Workers |-> 0]
    /\ wPx = [w \in Workers |-> 0]
    /\ wDraws = [w \in Workers |-> 0]
    /\ gen = 0
    /\ genUsers = {}
    /\ writes = {}

PixIdle ==
    /\ spp = 1
    /\ cameraSize = Num(1, 1)
    /\ pixel = <<0, 0>>
    /\ ppc = "idle"
    /\ sx = 0
    /\ sy = 0
    /\ calls = 0
    /\ accumSum = <<>>
    /\ accumColor = <<>>
    /\ lastSample = <<>>

DnIdle ==
    /\ dnSize = 1
    /\ dnExtent = Cube(1)
    /\ dnPos = <<0, 0, 0>>
    /\ dnRead = <<>>

MeshIdle ==
    /\ mesh = <<>>
    /\ mtSize = 1
    /\ mtDone = [z \in {0} |-> 1]
    /\ mtDensity = [o \in {0} |-> 0]

IntersectInit ==
    /\ TraceIdle
    /\ ParIdle
    /\ PixIdle
    /\ DnIdle
    /\ MeshIdle
    /\ ivExtent \in {Cube(e) : e \in 1..MaxExtent}
    /\ ivP \in Coords \X Coords \X Coords
    /\ ivD \in Dirs \X Dirs \X Dirs
    /\ ivRes = NoResult

IntersectCall ==
    /\ ivRes = NoResult
    /\ ivRes' = vtIntersectVolume(ivExtent, ivP, ivD)
    /\ UNCHANGED <<ivExtent, ivP, ivD, traceVars, parVars, pixVars, dnVars, meshVars>>

IntersectNext == IntersectCall

SpecIntersect == IntersectInit /\ [][IntersectNext]_vars

\* ------------------------------------------------------------ Path integrator
One == Num(1, 1)

\* 0.2f, the Russian-roulette threshold and floor.
Fifth == Num(1, RouletteDen)

FMulInt(x, i) == Num(x.n * i, x.d)

\* A value vtRandom() returns: r/RandDen, r in 0..RandDen-1, so in [0, 1).
RandomDraws == {Num(r, RandDen) : r \in 0..(RandDen - 1)}

\* The values t - logf(1 - vtRandom()) / maxExtinction adds to t.
FlightSteps == {k * FlightUnit : k \in 0..MaxFlight}

\* The values vtExtinction returns: vtVoxelProceduralMedium is
\* powf(fmaxf(.., 0), 8) * maxExtinction with the base at most 1, so a value
\* of [0, maxExtinction]; which one it is at a position is left open.
Extinctions == {Num(MaxExtinction * e, ExtLevels) : e \in 0..ExtLevels}

\* The unit vectors of the grid: what the isotropic phase function and the
\* normalised camera direction are drawn from.
UnitDirs == {<<1, 0, 0>>, <<-1, 0, 0>>, <<0, 1, 0>>, <<0, -1, 0>>, <<0, 0, 1>>, <<0, 0, -1>>}

Ambient == <<2, 2, 2>>

Black == <<FZero, FZero, FZero>>

\* context.ambient * weight
Radiance(a, w) == <<FMulInt(w, a[1]), FMulInt(w, a[2]), FMulInt(w, a[3])>>

\* A miss treated as a fully absorbed path.
MissRadianceBlack == Black

\* The else branch of vtTraceSample: weight = 1.0f, return ambient * weight.
MissRadiance == Radiance(Ambient, One)

\* p + d * t for an integer t
PosAlong(p, d, t) == <<p[1] + d[1] * t, p[2] + d[2] * t, p[3] + d[3] * t>>

\* tmin as grid units: exact, the directions being unit vectors of the grid.
GridT(t) == t.n \div t.d

TraceExtent == Cube(VolumeExtent)

\* The escape test applied to the position the flight started from.
CandidateEscapedStale(ve, p, s) == ~vtInVolume(ve, p)

\* if (!vtInVolume(context, s)) return false;
CandidateEscaped(ve, p, s) == ~vtInVolume(ve, s)

\* vtExtinction(context, s, d) < vtRandom() * context.medium.maxExtinction
Rejected(ext, u) == FLess(ext, FMulInt(u, MaxExtinction))

\* The cap test with > in place of >=.
CapReachedLate(n, cap) == n > cap

\* interactions++ >= context.maxInteractions, on the value before the increment
CapReached(n, cap) == n >= cap

\* weight * context.medium.albedo
Absorb(w, a) == Num(w.n * a, w.d * AlbedoDen)

\* vtRandom() > weight * 5.0f
RouletteKills(w, u) == FLess(FMulInt(w, RouletteDen), u)

\* Roulette that lets the survivor keep its weight.
RouletteFloorNone(w) == w

\* weight = 0.2f
RouletteFloor(w) == Fifth

TraceOrigins == {<<0, 10, -120>>, <<0, 10, 0>>}

TraceInit ==
    /\ IvIdle
    /\ ParIdle
    /\ PixIdle
    /\ DnIdle
    /\ MeshIdle
    /\ albedo \in 0..AlbedoDen
    /\ maxInteractions \in 0..MaxCap
    /\ camP \in TraceOrigins
    /\ camD \in UnitDirs
    /\ tpc = "start"
    /\ rayPos = <<0, 0, 0>>
    /\ rayDir = <<0, 0, 0>>
    /\ weight = One
    /\ interactions = 0
    /\ flightT = 0
    /\ cand = <<>>
    /\ lastEval = <<>>
    /\ exitKind = "none"
    /\ result = <<>>

\* Lines 555-560 and 595-600: the volume test, the entry point, or the miss.
TraceEnter ==
    /\ tpc = "start"
    /\ LET iv == vtIntersectVolume(TraceExtent, camP, camD)
       IN  /\ iv.hit
           /\ rayPos' = PosAlong(camP, camD, GridT(iv.tmin) + EntryEps)
    /\ rayDir' = camD
    /\ interactions' = 0
    /\ tpc' = "flight"
    /\ flightT' = 0
    /\ cand' = <<>>
    /\ UNCHANGED <<ivVars, parVars, pixVars, dnVars, meshVars, albedo, maxInteractions, camP, camD, weight, lastEval,
                   exitKind, result>>

TraceMiss ==
    /\ tpc = "start"
    /\ ~vtIntersectVolume(TraceExtent, camP, camD).hit
    /\ weight' = One
    /\ result' = MissRadiance
    /\ exitKind' = "miss"
    /\ tpc' = "done"
    /\ UNCHANGED <<ivVars, parVars, pixVars, dnVars, meshVars, albedo, maxInteractions, camP, camD, rayPos, rayDir,
                   interactions, flightT, cand, lastEval>>

\* One pass of vtTraceInteraction's loop that leaves the box: it returns false,
\* the while loop of vtTraceSample ends, lines 590-600 return ambient * weight.
FlightEscape ==
    /\ tpc = "flight"
    /\ \E step \in FlightSteps :
        LET t == flightT + step
            s == PosAlong(rayPos, rayDir, t)
        IN  /\ CandidateEscaped(TraceExtent, rayPos, s)
            /\ flightT' = t
            /\ cand' = s
    /\ weight' = IF interactions = 0 THEN One ELSE weight
    /\ result' = Radiance(Ambient, weight')
    /\ exitKind' = "escape"
    /\ tpc' = "done"
    /\ UNCHANGED <<ivVars, parVars, pixVars, dnVars, meshVars, albedo, maxInteractions, camP, camD, rayPos, rayDir,
                   interactions, lastEval>>

\* One pass that stays in the box and is rejected: the loop goes on from t.
FlightReject ==
    /\ tpc = "flight"
    /\ \E step \in FlightSteps, ext \in Extinctions, u \in RandomDraws :
        LET t == flightT + step
            s == PosAlong(rayPos, rayDir, t)
        IN  /\ ~CandidateEscaped(TraceExtent, rayPos, s)
            /\ Rejected(ext, u)
            /\ flightT' = t
            /\ cand' = s
            /\ lastEval' = s
    /\ UNCHANGED <<ivVars, parVars, pixVars, dnVars, meshVars, albedo, maxInteractions, camP, camD, tpc, rayPos, rayDir,
                   weight, interactions, exitKind, result>>

\* One pass that stays in the box and is accepted: p = s; return true.
FlightAccept ==
    /\ tpc = "flight"
    /\ \E step \in FlightSteps, ext \in Extinctions, u \in RandomDraws :
        LET t == flightT + step
            s == PosAlong(rayPos, rayDir, t)
        IN  /\ ~CandidateEscaped(TraceExtent, rayPos, s)
            /\ ~Rejected(ext, u)
            /\ flightT' = t
            /\ cand' = s
            /\ lastEval' = s
            /\ rayPos' = s
    /\ tpc' = "scatter"
    /\ UNCHANGED <<ivVars, parVars, pixVars, dnVars, meshVars, albedo, maxInteractions, camP, camD, rayDir, weight,
                   interactions, exitKind, result>>

\* Lines 564-567: the path is too long.  interactions is a uint32_t; it never
\* exceeds maxInteractions + 1, so the increment does not wrap for any cap
\* below 2^32 - 1.
ScatterCap ==
    /\ tpc = "scatter"
    /\ CapReached(interactions, maxInteractions)
    /\ interactions' = interactions + 1
    /\ result' = Black
    /\ exitKind' = "cap"
    /\ tpc' = "done"
    /\ UNCHANGED <<ivVars, parVars, pixVars, dnVars, meshVars, albedo, maxInteractions, camP, camD, rayPos, rayDir, weight,
                   flightT, cand, lastEval>>

\* Lines 570-576: absorbed by Russian roulette.
ScatterRoulette ==
    /\ tpc = "scatter"
    /\ ~CapReached(interactions, maxInteractions)
    /\ interactions' = interactions + 1
    /\ weight' = Absorb(weight, albedo)
    /\ FLess(weight', Fifth)
    /\ \E u \in RandomDraws : RouletteKills(weight', u)
    /\ result' = Black
    /\ exitKind' = "roulette"
    /\ tpc' = "done"
    /\ UNCHANGED <<ivVars, parVars, pixVars, dnVars, meshVars, albedo, maxInteractions, camP, camD, rayPos, rayDir,
                   flightT, cand, lastEval>>

\* Lines 570-587: the path scatters on, in a new direction.
ScatterOn ==
    /\ tpc = "scatter"
    /\ ~CapReached(interactions, maxInteractions)
    /\ interactions' = interactions + 1
    /\ LET w == Absorb(weight, albedo)
       IN  IF FLess(w, Fifth)
           THEN /\ \E u \in RandomDraws : ~RouletteKills(w, u)
                /\ weight' = RouletteFloor(w)
           ELSE weight' = w
    /\ rayDir' \in UnitDirs
    /\ tpc' = "flight"
    /\ flightT' = 0
    /\ cand' = <<>>
    /\ UNCHANGED <<ivVars, parVars, pixVars, dnVars, meshVars, albedo, maxInteractions, camP, camD, rayPos, lastEval,
                   exitKind, result>>

TraceNext ==
    \/ TraceEnter
    \/ TraceMiss
    \/ FlightEscape
    \/ FlightReject
    \/ FlightAccept
    \/ ScatterCap
    \/ ScatterRoulette
    \/ ScatterOn

SpecTrace == TraceInit /\ [][TraceNext]_vars

\* ------------------------------------------------------------- Frame driver
GenStates == 0..(GenPeriod - 1)

\* std::generate_canonical advances the generator.
Advance(g) == (g + 1) % GenPeriod

\* An offset that leaves the row stride out.
PixelOffsetNoStride(width, px, py, k) == py * BytesPerPixel + px * BytesPerPixel + k

\* data[py * context.imageWidth * 4 + px * 4 + k]
PixelOffset(width, px, py, k) == py * width * BytesPerPixel + px * BytesPerPixel + k

ParInit ==
    /\ IvIdle
    /\ TraceIdle
    /\ PixIdle
    /\ DnIdle
    /\ MeshIdle
    /\ imageWidth \in 1..MaxImageWidth
    /\ imageHeight \in 1..MaxImageHeight
    /\ rowsLeft = 0..(imageHeight - 1)
    /\ wpc = [w \in Workers |-> "idle"]
    /\ wRow = [w \in Workers |-> 0]
    /\ wPx = [w \in Workers |-> 0]
    /\ wDraws = [w \in Workers |-> 0]
    /\ gen = 0
    /\ genUsers = {}
    /\ writes = {}

\* The parallel for hands iteration py to worker w, which starts its row at
\* px = 0 (any schedule: any idle worker, any iteration left).
TakeRow(w) ==
    /\ wpc[w] = "idle"
    /\ \E py \in rowsLeft :
        /\ rowsLeft' = rowsLeft \ {py}
        /\ wRow' = [wRow EXCEPT ![w] = py]
    /\ wPx' = [wPx EXCEPT ![w] = 0]
    /\ wDraws' = [wDraws EXCEPT ![w] = DrawsPerPixel]
    /\ wpc' = [wpc EXCEPT ![w] = "load"]
    /\ UNCHANGED <<ivVars, traceVars, pixVars, dnVars, meshVars, imageWidth, imageHeight, gen, genUsers, writes>>

\* vtRandom, first half: the call reads the state of the one static generator.
RandomLoad(w) ==
    /\ wpc[w] = "load"
    /\ genUsers' = genUsers \cup {w}
    /\ wpc' = [wpc EXCEPT ![w] = "store"]
    /\ UNCHANGED <<ivVars, traceVars, pixVars, dnVars, meshVars, imageWidth, imageHeight, rowsLeft, wRow, wPx,
                   wDraws, gen, writes>>

\* vtRandom, second half: the call writes the advanced state back.  While w is
\* the generator's only user the state it read is still the generator's.
\* Nothing orders the calls of two workers, so once two of them have used the
\* generator their accesses race and the state left behind is any state.
RandomStore(w) ==
    /\ wpc[w] = "store"
    /\ IF genUsers = {w}
       THEN gen' = Advance(gen)
       ELSE gen' \in GenStates
    /\ wDraws' = [wDraws EXCEPT ![w] = wDraws[w] - 1]
    /\ wpc' = [wpc EXCEPT ![w] = IF wDraws[w] = 1 THEN "write" ELSE "load"]
    /\ UNCHANGED <<ivVars, traceVars, pixVars, dnVars, meshVars, imageWidth, imageHeight, rowsLeft, wRow, wPx,
                   genUsers, writes>>

\* Lines 655-658 and the px loop of main: the pixel's four bytes are written,
\* then the worker goes on to the next px, or is done with its row.
PixelWrite(w) ==
    /\ wpc[w] = "write"
    /\ writes' = writes \cup
        {[off |-> PixelOffset(imageWidth, wPx[w], wRow[w], k), px |-> wPx[w], py |-> wRow[w]] :
            k \in 0..(BytesPerPixel - 1)}
    /\ IF wPx[w] + 1 < imageWidth
       THEN /\ wPx' = [wPx EXCEPT ![w] = wPx[w] + 1]
            /\ wDraws' = [wDraws EXCEPT ![w] = DrawsPerPixel]
            /\ wpc' = [wpc EXCEPT ![w] = "load"]
            /\ wRow' = wRow
       ELSE /\ wPx' = [wPx EXCEPT ![w] = 0]
            /\ wDraws' = wDraws
            /\ wpc' = [wpc EXCEPT ![w] = "idle"]
            /\ wRow' = [wRow EXCEPT ![w] = 0]
    /\ UNCHANGED <<ivVars, traceVars, pixVars, dnVars, meshVars, imageWidth, imageHeight, rowsLeft, gen, genUsers>>

ParNext ==
    \E w \in Workers :
        \/ TakeRow(w)
        \/ RandomLoad(w)
        \/ RandomStore(w)
        \/ PixelWrite(w)

SpecPar == ParInit /\ [][ParNext]_vars

\* ------------------------------------------------------------ Pixel estimator
RAdd(x, y) == Num(x.n * y.d + y.n * x.d, x.d * y.d)

RMul(x, y) == Num(x.n * y.n, x.d * y.d)

RDivInt(x, i) == Num(x.n, x.d * i)

\* cameraSize / context.imageWidth, cameraSize / context.imageHeight
PerPixel(cs, size) == RDivInt(cs, size)

\* (px + (x + vtRandom()) * sppWidth) * widthPerPixel, with
\* sppWidth = widthPerPixel / context.samplePerPixel; the same for y.
JitterCoord(p, i, r, perPixel, s) ==
    RMul(RAdd(Num(p, 1), RMul(RAdd(Num(i, 1), r), RDivInt(perPixel, s))), perPixel)

\* An average over the per-axis count instead of the sample count.
SampleScaleLinear(s) == Num(1, s)

\* 1.0f / (context.samplePerPixel * context.samplePerPixel)
SampleScale(s) == Num(1, s * s)

VAddF(a, b) == <<RAdd(a[1], b[1]), RAdd(a[2], b[2]), RAdd(a[3], b[3])>>

VScaleF(a, k) == <<RMul(a[1], k), RMul(a[2], k), RMul(a[3], k)>>

\* What vtTraceSample returns: black, or the ambient colour times a weight.
SampleColours == {Black, Radiance(Ambient, One)}

CameraSizes == {Num(k, 1) : k \in 1..MaxCameraSize} \cup {Num(1, SceneCameraDen)}

PixelInit ==
    /\ IvIdle
    /\ TraceIdle
    /\ DnIdle
    /\ MeshIdle
    /\ imageWidth \in 1..MaxImageWidth
    /\ imageHeight \in 1..MaxImageHeight
    /\ rowsLeft = {}
    /\ wpc = [w \in Workers |-> "idle"]
    /\ wRow = [w \in Workers |-> 0]
    /\ wPx = [w \in Workers |-> 0]
    /\ wDraws = [w \in Workers |-> 0]
    /\ gen = 0
    /\ genUsers = {}
    /\ writes = {}
    /\ spp \in 1..MaxSpp
    /\ cameraSize \in CameraSizes
    /\ pixel \in (0..(imageWidth - 1)) \X (0..(imageHeight - 1))
    /\ ppc = "sample"
    /\ sx = 0
    /\ sy = 0
    /\ calls = 0
    /\ accumSum = <<>>
    /\ accumColor = Black
    /\ lastSample = <<>>

\* Lines 629-644: one pass of the inner loop, then the loop variables.
PixelSample ==
    /\ ppc = "sample"
    /\ \E r1 \in RandomDraws, r2 \in RandomDraws :
        lastSample' =
            [x |-> sx, y |-> sy,
             rx |-> JitterCoord(pixel[1], sx, r1, PerPixel(cameraSize, imageWidth), spp),
             ry |-> JitterCoord(pixel[2], sy, r2, PerPixel(cameraSize, imageHeight), spp)]
    /\ \E c \in SampleColours : accumColor' = VAddF(accumColor, c)
    /\ calls' = calls + 1
    /\ IF sy + 1 < spp
       THEN /\ sy' = sy + 1
            /\ sx' = sx
            /\ ppc' = "sample"
       ELSE /\ sy' = 0
            /\ sx' = sx + 1
            /\ ppc' = IF sx + 1 < spp THEN "sample" ELSE "scale"
    /\ UNCHANGED <<ivVars, traceVars, parVars, dnVars, meshVars, spp, cameraSize, pixel, accumSum>>

\* Line 646: the average.  The tone curve and the gamma encoding that follow
\* (powf) are not computed: no property below reads the bytes' values.
PixelScale ==
    /\ ppc = "scale"
    /\ accumSum' = accumColor
    /\ accumColor' = VScaleF(accumColor, SampleScale(spp))
    /\ ppc' = "done"
    /\ UNCHANGED <<ivVars, traceVars, parVars, dnVars, meshVars, spp, cameraSize, pixel, sx, sy,
                   calls, lastSample>>

PixelNext ==
    \/ PixelSample
    \/ PixelScale

SpecPixel == PixelInit /\ [][PixelNext]_vars

\* -------------------------------------------------------------- Medium field
Min(a, b) == IF a < b THEN a ELSE b

\* static_cast<int32_t> of the fraction n/d (d > 0): truncation toward zero.
Trunc(n, d) == IF n >= 0 THEN n \div d ELSE -((-n) \div d)

\* static_cast<int32_t>((pos + volumeExtent * 0.5f) / (volumeExtent / size))
GridCell(pos, ve, size) == Trunc((2 * pos + ve) * size, 2 * ve)

\* Lines 384-402 of VTMedium::Density: the indices and the offsets read.
DensityRead(size, ve, pos) ==
    LET vx == Min(size - 1, GridCell(pos[1], ve[1], size))
        vx1 == Min(size - 1, vx + 1)
        vy == Min(size - 1, GridCell(pos[2], ve[2], size))
        vy1 == Min(size - 1, vy + 1)
        vz == Min(size - 1, GridCell(pos[3], ve[3], size))
        vz1 == Min(size - 1, vz + 1)
    IN  [idx |-> <<vx, vx1, vy, vy1, vz, vz1>>,
         off |-> <<vz * size * size + vy * size + vx,
                   vz * size * size + vy * size + vx1,
                   vz * size * size + vy1 * size + vx,
                   vz1 * size * size + vy * size + vx>>]

DensityInit ==
    /\ IvIdle
    /\ TraceIdle
    /\ ParIdle
    /\ PixIdle
    /\ MeshIdle
    /\ dnSize \in 1..MaxGrid
    /\ dnExtent \in {Cube(e) : e \in 1..MaxExtent}
    /\ dnPos \in Coords \X Coords \X Coords
    /\ dnRead = <<>>

DensityCall ==
    /\ dnRead = <<>>
    /\ dnRead' = DensityRead(dnSize, dnExtent, dnPos)
    /\ UNCHANGED <<ivVars, traceVars, parVars, pixVars, meshVars, dnSize, dnExtent, dnPos>>

DensityNext == DensityCall

SpecDensity == DensityInit /\ [][DensityNext]_vars

\* ---------------------------------------------------------------------------
\* Mesh rasterizer: vtTriangleMeshToMedium and the inside tests it calls.
\* Lengths are in units of half a grid step (volumeExtent / size / 2), so the
\* cell centres and the mesh vertices are integers and the tests are exact.
\* ---------------------------------------------------------------------------

\* VTVec3::Cross
Cross(a, b) ==
    <<a[2] * b[3] - a[3] * b[2], a[3] * b[1] - a[1] * b[3], a[1] * b[2] - a[2] * b[1]>>

\* VTVec3::Dot
Dot(a, b) == a[1] * b[1] + a[2] * b[2] + a[3] * b[3]

VSub(a, b) == <<a[1] - b[1], a[2] - b[2], a[3] - b[3]>>

VAddScaled(p, d, k) == <<p[1] + d[1] * k, p[2] + d[2] * k, p[3] + d[3] * k>>

\* VTTriangle::IntersectInside: the segment from p along d against one
\* triangle; only a triangle whose Cross(v2 - v0, v1 - v0) faces against the
\* segment passes, and the barycentric tests include the edges.
TriangleIntersectInside(tri, p, d) ==
    LET q  == VAddScaled(p, d, RayLength)
        ab == VSub(tri.v2, tri.v0)
        ac == VSub(tri.v1, tri.v0)
        qp == VSub(p, q)
        n  == Cross(ab, ac)
        s  == Dot(qp, n)
        ap == VSub(p, tri.v0)
        t  == Dot(ap, n)
        e  == Cross(qp, ap)
        v  == Dot(ac, e)
        w  == -Dot(ab, e)
    IN  IF s <= 0 THEN FALSE
        ELSE IF t < 0 THEN FALSE
        ELSE IF v < 0 \/ v > s THEN FALSE
        ELSE IF w < 0 \/ v + w > s THEN FALSE
        ELSE TRUE

\* VTTriangleMesh::IntersectInside: the loop returns true at the first
\* triangle that passes and false when it runs out of triangles.
RECURSIVE MeshScan(_, _, _, _)
MeshScan(tris, triIndex, p, d) ==
    IF triIndex > Len(tris) THEN FALSE
    ELSE IF TriangleIntersectInside(tris[triIndex], p, d) THEN TRUE
    ELSE MeshScan(tris, triIndex + 1, p, d)

MeshIntersectInside(tris, p, d) == MeshScan(tris, 1, p, d)

\* vtTriangleMeshToMedium: the direction of the probe
ProbeDir == <<0, 0, -1>>

\* vtTriangleMeshToMedium: step * (x - halfSize + 0.5) in half steps, with
\* halfSize = size / 2 in integers
CellCoord(x, size) == 2 * (x - size \div 2) + 1

CellCentre(x, y, z, size) == <<CellCoord(x, size), CellCoord(y, size), CellCoord(z, size)>>

\* vtTriangleMeshToMedium: the index into medium.density
CellOffset(x, y, z, size) == z * size * size + y * size + x

\* vtTriangleMeshToMedium: the value stored for the cell
CellDensity(tris, x, y, z, size) ==
    IF MeshIntersectInside(tris, CellCentre(x, y, z, size), ProbeDir) THEN MaxExtinction ELSE 0

\* The meshes: horizontal triangles that cover all or the x > 0 part of the
\* cell columns, at two heights, in both windings.
Footprints ==
    { <<<<-8, -8>>, <<8, -8>>, <<0, 8>>>>, <<<<0, -8>>, <<8, -8>>, <<0, 8>>>> }

TriLevels == {-2, 0}

Flat(f, h, swap) ==
    LET a == <<f[1][1], f[1][2], h>>
        b == <<f[2][1], f[2][2], h>>
        c == <<f[3][1], f[3][2], h>>
    IN  IF swap THEN [v0 |-> a, v1 |-> c, v2 |-> b] ELSE [v0 |-> a, v1 |-> b, v2 |-> c]

Triangles == { Flat(f, h, swap) : f \in Footprints, h \in TriLevels, swap \in BOOLEAN }

Meshes == UNION { [1..k -> Triangles] : k \in 0..MaxTris }

MeshToMediumInit ==
    /\ IvIdle
    /\ TraceIdle
    /\ ParIdle
    /\ PixIdle
    /\ DnIdle
    /\ mesh \in Meshes
    /\ mtSize \in 1..MaxGrid
    /\ mtDone = [z \in 0..(mtSize - 1) |-> 0]
    /\ mtDensity = [o \in {} |-> 0]

\* One iteration of the innermost loop in the slice z; the slices are shared
\* out to the threads of the parallel loop, so they advance in any order.
MeshToMediumCell(z) ==
    /\ mtDone[z] < mtSize * mtSize
    /\ LET y   == mtDone[z] \div mtSize
           x   == mtDone[z] % mtSize
           off == CellOffset(x, y, z, mtSize)
           val == CellDensity(mesh, x, y, z, mtSize)
       IN  mtDensity' = [o \in DOMAIN mtDensity \cup {off} |->
                            IF o = off THEN val ELSE mtDensity[o]]
    /\ mtDone' = [mtDone EXCEPT ![z] = @ + 1]
    /\ UNCHANGED <<ivVars, traceVars, parVars, pixVars, dnVars, mesh, mtSize>>

MeshToMediumNext == \E z \in 0..(mtSize - 1) : MeshToMediumCell(z)

SpecMeshToMedium == MeshToMediumInit /\ [][MeshToMediumNext]_vars

\* ------------------------------------------------------ C1 (the path weight)
FLeq(x, y) == x = y \/ FLess(x, y)

\* The path has been through at least one scatter event (lines 570-578).
Scattered == interactions > 0 /\ exitKind # "cap"

\* C1: in vtTraceSample, for an albedo in [0,1] and any random draws, the
\* weight is <= 1.0 after every scatter event, and >= 0.2 after every scatter
\* event that Russian roulette did not end (the loop goes on past line 578).
C1_WeightBounds ==
    /\ FLeq(weight, One)
    /\ (tpc = "flight" /\ Scattered) => FLeq(Fifth, weight)
    /\ (tpc = "done" /\ exitKind = "escape" /\ Scattered) => FLeq(Fifth, weight)

\* A second scatter event at which roulette was played and survived.
C1_Witness ==
    /\ tpc = "flight" /\ interactions = 2 /\ albedo > 0 /\ albedo < AlbedoDen
    /\ weight = Fifth

\* ------------------------------------------------- C2 (the interaction cap)
\* C2: an interaction increments the counter and the path returns black
\* through the cap exactly when the incremented counter exceeds
\* maxInteractions: never at or before the maxInteractions-th interaction,
\* always at the (maxInteractions+1)-th, and with maxInteractions = 0 every
\* path that interacts returns black at its first interaction.
C2_InteractionCap ==
    /\ interactions <= maxInteractions + 1
    /\ (exitKind = "cap") <=> (interactions > maxInteractions)
    /\ exitKind = "cap" => (tpc = "done" /\ result = Black)
    /\ (maxInteractions = 0 /\ tpc = "done" /\ exitKind \notin {"miss", "escape"})
        => (exitKind = "cap" /\ interactions = 1 /\ result = Black)

\* A path cut at its (maxInteractions+1)-th interaction, after surviving
\* maxInteractions > 0 of them.
C2_Witness ==
    /\ tpc = "done" /\ exitKind = "cap" /\ maxInteractions = MaxCap
    /\ interactions = MaxCap + 1 /\ result = Black

\* ------------------------------------------------ C3 (the unoccluded colour)
AmbientColour == <<Num(Ambient[1], 1), Num(Ambient[2], 1), Num(Ambient[3], 1)>>

\* C3: vtTraceSample returns exactly the ambient colour when the camera ray
\* misses the volume, and when it hits the volume and the loop ends by escape
\* after zero interactions, whatever the draws and the albedo.
C3_AmbientWhenUnoccluded ==
    tpc = "done" =>
        /\ ~vtIntersectVolume(TraceExtent, camP, camD).hit => result = AmbientColour
        /\ (exitKind = "escape" /\ interactions = 0) => result = AmbientColour
        /\ exitKind = "miss" <=> ~vtIntersectVolume(TraceExtent, camP, camD).hit

\* An escape through a fully absorbing medium without an interaction, after
\* a rejected candidate.
C3_Witness ==
    /\ tpc = "done" /\ exitKind = "escape" /\ interactions = 0 /\ lastEval # <<>>
    /\ albedo = 0 /\ result = AmbientColour

\* A miss with a fully absorbing medium.
C3_WitnessMiss ==
    /\ tpc = "done" /\ exitKind = "miss" /\ albedo = 0 /\ result = AmbientColour

\* ------------------------------------------------------------- C4 (slab test)
IntersectCalled == ivRes # NoResult

Infinite(x) == x.k \in {"pinf", "ninf"}

\* Twice coordinate i of p + d * t, times t.d, for a finite t.
TwicePointAt(p, d, t, i) == 2 * (p[i] * t.d + d[i] * t.n)

\* p + d * t lies in the closed box / in the open box.
InBoxAt(ve, p, d, t) ==
    \A i \in Axes : Abs(TwicePointAt(p, d, t, i)) <= ve[i] * t.d

StrictlyInBoxAt(ve, p, d, t) ==
    \A i \in Axes : Abs(TwicePointAt(p, d, t, i)) < ve[i] * t.d

\* The ray parameters at which a missed ray is probed: 0, 1/4, ..., 4 * MaxCoord.
ProbeTs == {Num(k, 4) : k \in 0..(16 * MaxCoord)}

\* The spec's example: from (0,0,-a), a > h, along (0,0,1): hit at a - h.
AxisExample ==
    \A a \in 1..MaxCoord :
        (ivP = <<0, 0, -a>> /\ ivD = <<0, 0, 1>> /\ 2 * a > ivExtent[3])
            => (ivRes.hit /\ ivRes.tmin = Num(2 * a - ivExtent[3], 2))

\* hit is tmin < tmax, tmin is clamped to >= 0, a hit enters the box at tmin
\* and a miss never passes through the box's interior.
SlabTestSound ==
    /\ ivRes.hit <=> FLess(ivRes.tmin, ivRes.tmax)
    /\ ivRes.tmin.k # "nan" /\ ~FLess(ivRes.tmin, FZero)
    /\ ivRes.hit => (ivRes.tmin.k = "num" /\ InBoxAt(ivExtent, ivP, ivD, ivRes.tmin))
    /\ ~ivRes.hit => \A t \in ProbeTs : ~StrictlyInBoxAt(ivExtent, ivP, ivD, t)

\* C4 as stated: vtIntersectVolume returns hit iff tMin < tMax (tMin the
\* largest per-axis entry distance clamped to >= 0, tMax the smallest exit
\* distance), every zero direction component gives +/-infinity slab
\* distances, and the axis example hits with tMin = a - h.
C4_AsStated ==
    IntersectCalled =>
        /\ SlabTestSound
        /\ \A i \in Axes :
            ivD[i] = 0 => (Infinite(ivRes.lo[i]) /\ Infinite(ivRes.hi[i]))
        /\ AxisExample

\* C4 amended: as C4, but a zero direction component gives +/-infinity slab
\* distances only for the box planes the ray origin does not lie on; for a
\* plane through the origin the quotient is 0/0 = NaN, which fminf/fmaxf
\* drop, and a ray with exactly one such plane on an axis misses the box.
C4_SlabTest ==
    IntersectCalled =>
        /\ SlabTestSound
        /\ \A i \in Axes :
            ivD[i] = 0 =>
                /\ -ivExtent[i] = 2 * ivP[i] => ivRes.lo[i] = NaN
                /\ ivExtent[i] = 2 * ivP[i] => ivRes.hi[i] = NaN
                /\ -ivExtent[i] # 2 * ivP[i] => Infinite(ivRes.lo[i])
                /\ ivExtent[i] # 2 * ivP[i] => Infinite(ivRes.hi[i])
                /\ (ivRes.lo[i] = NaN) # (ivRes.hi[i] = NaN) => ~ivRes.hit
        /\ AxisExample

\* The unit box, the ray from (0,0,-2) along (0,0,1): hit with tmin = 1.5.
C4_Witness ==
    /\ IntersectCalled
    /\ ivExtent = Cube(1) /\ ivP = <<0, 0, -2>> /\ ivD = <<0, 0, 1>>
    /\ ivRes.hit /\ ivRes.tmin = Num(3, 2)

\* ------------------------------------------------ C5 (free-flight sampling)
\* C5: vtTraceInteraction reports an interaction only with a candidate that
\* satisfies vtInVolume, reports none as soon as a candidate lies outside the
\* box, and never evaluates the extinction at a candidate outside the box.
C5_OnlyInsideTheBox ==
    /\ lastEval # <<>> => vtInVolume(TraceExtent, lastEval)
    /\ tpc = "scatter" => (cand = rayPos /\ vtInVolume(TraceExtent, rayPos))
    /\ interactions > 0 => vtInVolume(TraceExtent, rayPos)
    /\ (cand # <<>> /\ ~vtInVolume(TraceExtent, cand))
        => (tpc = "done" /\ exitKind = "escape" /\ lastEval # cand)

\* A candidate accepted on the box's boundary.
C5_Witness ==
    /\ tpc = "scatter" /\ cand = rayPos /\ lastEval = cand
    /\ \E i \in Axes : 2 * Abs(rayPos[i]) = VolumeExtent

\* A candidate outside the box after an in-box rejection: no interaction.
C5_WitnessEscape ==
    /\ tpc = "done" /\ exitKind = "escape" /\ lastEval # <<>>
    /\ ~vtInVolume(TraceExtent, cand)

\* ------------------------------------------------- C6 (the random generator)
\* C6: during the parallel pixel loop each worker draws from its own private
\* generator: no two workers ever read or advance the same generator state.
C6_PrivateGenerators == Cardinality(genUsers) <= 1

\* ---------------------------------------------------- C7 (the output buffer)
PixelBase(wr) == (wr.py * imageWidth + wr.px) * BytesPerPixel

\* C7: every pixel (px,py) of the image writes exactly the 4 bytes at
\* (py*imageWidth + px)*4 + 0..3, inside [0, imageWidth*imageHeight*4), and no
\* byte is written by two pixels, under any interleaving of the workers.
C7_DisjointPixelSlices ==
    /\ \A wr \in writes :
        /\ wr.px \in 0..(imageWidth - 1) /\ wr.py \in 0..(imageHeight - 1)
        /\ wr.off \in 0..(imageWidth * imageHeight * BytesPerPixel - 1)
        /\ wr.off \in PixelBase(wr)..(PixelBase(wr) + 3)
        /\ Cardinality({o \in writes : o.px = wr.px /\ o.py = wr.py}) = 4
    /\ \A a, b \in writes : a.off = b.off => (a.px = b.px /\ a.py = b.py)

\* The whole image written, by two workers that ran rows of their own.
C7_Witness ==
    /\ imageWidth = MaxImageWidth /\ imageHeight = MaxImageHeight
    /\ rowsLeft = {} /\ \A w \in Workers : wpc[w] = "idle"
    /\ Cardinality(genUsers) >= 2
    /\ Cardinality(writes) = imageWidth * imageHeight * BytesPerPixel

\* ----------------------------------------------------- C8 (the sample count)
\* C8: for S >= 1 samples per pixel axis, vtVolumePathTrace calls
\* vtTraceSample exactly S*S times for a pixel and divides the accumulated sum
\* by S*S, not by S, before tone mapping.
C8_SampleCount ==
    /\ calls <= spp * spp
    /\ ppc = "sample" => (sx < spp /\ sy < spp /\ calls = sx * spp + sy)
    /\ lastSample # <<>> =>
        /\ lastSample.x \in 0..(spp - 1) /\ lastSample.y \in 0..(spp - 1)
        /\ calls = lastSample.x * spp + lastSample.y + 1
    /\ ppc \in {"scale", "done"} => calls = spp * spp
    /\ ppc = "done" =>
        \A i \in Axes : RMul(accumColor[i], Num(spp * spp, 1)) = accumSum[i]

\* A pixel of 2 x 2 samples that all saw the ambient colour averages to it.
C8_Witness ==
    /\ ppc = "done" /\ spp = 2 /\ calls = 4
    /\ accumSum = VScaleF(AmbientColour, Num(4, 1))
    /\ accumColor = AmbientColour

\* ------------------------------------------------------ C9 (the jitter cell)
\* The cell of sub-sample i (of s) of pixel p: [(p + i/s), (p + (i+1)/s)) * perPixel.
CellLow(p, i, perPixel, s) == RMul(RAdd(Num(p, 1), Num(i, s)), perPixel)

CellHigh(p, i, perPixel, s) == RMul(RAdd(Num(p, 1), Num(i + 1, s)), perPixel)

InCell(v, p, i, perPixel, s) ==
    FLeq(CellLow(p, i, perPixel, s), v) /\ FLess(v, CellHigh(p, i, perPixel, s))

\* C9: the jittered sub-sample (x,y) of pixel (px,py) lies in its own cell of
\* the pixel's S x S grid, for every draw in [0,1).
C9_JitterInCell ==
    lastSample # <<>> =>
        /\ InCell(lastSample.rx, pixel[1], lastSample.x, PerPixel(cameraSize, imageWidth), spp)
        /\ InCell(lastSample.ry, pixel[2], lastSample.y, PerPixel(cameraSize, imageHeight), spp)

\* ------------------------------------------------- C10 (the grid's indices)
\* C10: in VTMedium::Density, for every query point, every grid index read
\* (vx, vx1, vy, vy1, vz, vz1) lies in [0, n-1] and every offset in [0, n^3).
C10_IndicesClamped ==
    dnRead # <<>> =>
        /\ \A i \in 1..6 : dnRead.idx[i] \in 0..(dnSize - 1)
        /\ \A i \in 1..4 : dnRead.off[i] \in 0..(dnSize * dnSize * dnSize - 1)

\* The triangles of the mesh that pass the inside test for the probe from p.
Crossings(tris, p) ==
    Cardinality({ i \in 1..Len(tris) : TriangleIntersectInside(tris[i], p, ProbeDir) })

\* The cell whose value sits at the offset off of medium.density.
CellAt(off) ==
    CellCentre(off % mtSize, (off \div mtSize) % mtSize, off \div (mtSize * mtSize), mtSize)

\* C11: every classified cell holds maxExtinction when the probe from its
\* centre along (0, 0, -1) intersects an odd number of the mesh's triangles,
\* and 0 when it intersects an even number.
C11_OddEvenCrossing ==
    \A off \in DOMAIN mtDensity :
        mtDensity[off] = IF Crossings(mesh, CellAt(off)) % 2 = 1 THEN MaxExtinction ELSE 0

\* What the loop of VTTriangleMesh::IntersectInside yields instead: a cell
\* holds maxExtinction exactly when at least one triangle passes.
RasterFirstHit ==
    \A off \in DOMAIN mtDensity :
        mtDensity[off] = IF Crossings(mesh, CellAt(off)) >= 1 THEN MaxExtinction ELSE 0

\* A cell whose probe passes two triangles has been classified.
RasterTwoCrossings ==
    \E off \in DOMAIN mtDensity : Crossings(mesh, CellAt(off)) = 2

====
